---- MODULE Spec2Model ----
(***************************************************************************)
(* The scoring engine of Open-Tender-Radar (backend/scoring.py) and the   *)
(* data it reads (backend/models.py), as a state machine: an engine is    *)
(* constructed, a tender record is handed to it, and calculate_score or   *)
(* explain_score is called on the pair.                                   *)
(*                                                                         *)
(* Python values are encoded as follows.                                   *)
(*   Optional[T]   None is <<>>, a present value v is <<v>>                *)
(*   str           a tuple of one-character strings                        *)
(*   float         the scores are whole numbers, kept as integers; a       *)
(*                 budget is kept in cents (seed.py rounds to 2 decimals)  *)
(*   a call        [raised |-> FALSE, value |-> v] when it returns v,      *)
(*                 [raised |-> TRUE, value |-> 0] when it raises           *)
(***************************************************************************)
EXTENDS Integers, Sequences, FiniteSets, TLC

VARIABLES
    engine,     \* the ScoringEngine instance the callers share: its instance attributes
    tender,     \* the tender record handed to the engine
    pc,         \* where the caller of the engine is
    result,     \* what the last call returned or raised
    cls,        \* the attributes of the class ScoringEngine
    others,     \* the engines constructed since, with the arguments given
    frames,     \* the calls in progress on the shared engine, one frame each
    table,      \* the rows of the tenders table
    listing     \* the last answer of GET /tenders, with its parameters

vars == <<engine, tender, pc, result, cls, others, frames, table, listing>>

(***************************************************************************)
(* Python values                                                           *)
(***************************************************************************)
None == <<>>

Some(v) == <<v>>

\* the characters of a string literal, as a tuple
Str(s) == [i \in 1..Len(s) |-> SubSeq(s, i, i)]

UpperLetters == Str("ABCDEFGHIJKLMNOPQRSTUVWXYZ")

LowerLetters == Str("abcdefghijklmnopqrstuvwxyz")

\* the characters without a case
OtherChars == Str(" ,.-0123456789")

Chars ==
    { UpperLetters[i] : i \in 1..26 } \cup { LowerLetters[i] : i \in 1..26 }
    \cup { OtherChars[i] : i \in 1..Len(OtherChars) }

\* str.lower() on one character: an upper-case letter becomes the lower-case
\* letter at the same place of the alphabet, every other character is kept
lower_char ==
    [ c \in Chars |->
        IF \E i \in 1..26 : UpperLetters[i] = c
        THEN LowerLetters[CHOOSE i \in 1..26 : UpperLetters[i] = c]
        ELSE c ]

\* str.upper() on one character
upper_char ==
    [ c \in Chars |->
        IF \E i \in 1..26 : LowerLetters[i] = c
        THEN UpperLetters[CHOOSE i \in 1..26 : LowerLetters[i] = c]
        ELSE c ]

\* s.lower()
lower(s) == [i \in 1..Len(s) |-> lower_char[s[i]]]

\* s.upper()
upper(s) == [i \in 1..Len(s) |-> upper_char[s[i]]]

\* Python's `sub in s` on two strings: sub occurs in s at some offset
\* (the empty string occurs in every string)
str_in(sub, s) ==
    \E k \in 0..(Len(s) - Len(sub)) : \A i \in 1..Len(sub) : s[k + i] = sub[i]

\* Python's `x in lst` on a list: some element equals x
list_in(x, lst) == \E i \in 1..Len(lst) : lst[i] = x

\* truth value of an Optional[str] or Optional[list]: None and the empty
\* value are falsy
truthy(opt) == opt # None /\ opt[1] # <<>>

Return(v) == [raised |-> FALSE, value |-> v]

\* AttributeError: 'NoneType' object has no attribute ...
Raise == [raised |-> TRUE, value |-> 0]

(***************************************************************************)
(* models.py                                                               *)
(***************************************************************************)
\* class TenderType(str, Enum): a member carries its string value
WORKS == [enum |-> TRUE, value |-> "works"]

SUPPLIES == [enum |-> TRUE, value |-> "supplies"]

SERVICES == [enum |-> TRUE, value |-> "services"]

CONCESSION == [enum |-> TRUE, value |-> "concession"]

\* a plain str, as the tender_type column (String) stores it
PlainStr(v) == [enum |-> FALSE, value |-> v]

\* a == b where one side is a TenderType member and the other a member or a
\* plain str, once the str mixin is ignored: members are equal only to
\* themselves
enum_eq_identity(a, b) == a = b

\* a == b for TenderType(str, Enum): the str mixin compares the string values
enum_eq(a, b) == a.value = b.value

\* tender_type in types
type_in(tender_type, types) == \E i \in 1..Len(types) : enum_eq(tender_type, types[i])

(***************************************************************************)
(* scoring.py: class-level configuration                                   *)
(***************************************************************************)
PRIORITY_COUNTRIES ==
    << Str("ES"), Str("PT"), Str("FR"), Str("IT"), Str("DE"), Str("UK") >>

TARGET_SECTORS ==
    << Str("technology"), Str("software"), Str("consulting"), Str("digital"),
       Str("it"), Str("telecommunications") >>

RELEVANT_KEYWORDS ==
    << Str("digital"), Str("software"), Str("cloud"), Str("api"), Str("saas"),
       Str("platform"), Str("data"), Str("analytics"), Str("ai"),
       Str("machine learning"), Str("blockchain"), Str("cybersecurity") >>

LESS_RELEVANT_TYPES == << WORKS, CONCESSION >>

\* the three configurable class attributes as the class body sets them
ClassDefaults ==
    [ PRIORITY_COUNTRIES |-> PRIORITY_COUNTRIES,
      TARGET_SECTORS     |-> TARGET_SECTORS,
      RELEVANT_KEYWORDS  |-> RELEVANT_KEYWORDS ]

\* ScoringEngine.__init__: an override that is a non-empty list becomes an
\* instance attribute; otherwise the instance has no such attribute
__init__(priority_countries, target_sectors, relevant_keywords) ==
    [ PRIORITY_COUNTRIES |-> IF truthy(priority_countries) THEN priority_countries ELSE None,
      TARGET_SECTORS     |-> IF truthy(target_sectors) THEN target_sectors ELSE None,
      RELEVANT_KEYWORDS  |-> IF truthy(relevant_keywords) THEN relevant_keywords ELSE None ]

\* ScoringEngine(...) with the three assignments made on the class
\* (ScoringEngine.PRIORITY_COUNTRIES = ...) instead of on self
construct_on_class(klass, priority_countries, target_sectors, relevant_keywords) ==
    [ raised |-> FALSE,
      cls    |-> [ PRIORITY_COUNTRIES |-> IF truthy(priority_countries)
                                          THEN priority_countries[1] ELSE klass.PRIORITY_COUNTRIES,
                   TARGET_SECTORS     |-> IF truthy(target_sectors)
                                          THEN target_sectors[1] ELSE klass.TARGET_SECTORS,
                   RELEVANT_KEYWORDS  |-> IF truthy(relevant_keywords)
                                          THEN relevant_keywords[1] ELSE klass.RELEVANT_KEYWORDS ],
      self   |-> __init__(None, None, None) ]

\* the whole effect of the expression ScoringEngine(...): no statement of
\* __init__ can raise, the class klass is not assigned to, and the new
\* instance has the attributes __init__ sets
construct(klass, priority_countries, target_sectors, relevant_keywords) ==
    [ raised |-> FALSE,
      cls    |-> klass,
      self   |-> __init__(priority_countries, target_sectors, relevant_keywords) ]

\* self.PRIORITY_COUNTRIES: the instance attribute, else the class attribute
self_PRIORITY_COUNTRIES(self) ==
    IF self.PRIORITY_COUNTRIES # None THEN self.PRIORITY_COUNTRIES[1] ELSE cls.PRIORITY_COUNTRIES

self_TARGET_SECTORS(self) ==
    IF self.TARGET_SECTORS # None THEN self.TARGET_SECTORS[1] ELSE cls.TARGET_SECTORS

self_RELEVANT_KEYWORDS(self) ==
    IF self.RELEVANT_KEYWORDS # None THEN self.RELEVANT_KEYWORDS[1] ELSE cls.RELEVANT_KEYWORDS

(***************************************************************************)
(* scoring.py: the six factor functions                                    *)
(***************************************************************************)
\* an amount of whole euros, in the unit budgets are kept in (cents)
EUR(n) == n * 100

\* _score_budget with the tier comparisons written <= instead of <
_score_budget_le(self, budget, currency) ==
    IF budget = None \/ budget[1] = 0 THEN Return(0)
    ELSE IF budget[1] <= EUR(10000) THEN Return(0)
    ELSE IF budget[1] <= EUR(50000) THEN Return(5)
    ELSE IF budget[1] <= EUR(100000) THEN Return(15)
    ELSE IF budget[1] <= EUR(500000) THEN Return(25)
    ELSE Return(30)

\* _score_budget without the `if not budget` guard: None < 10000 raises
_score_budget_unguarded(self, budget, currency) ==
    IF budget = None THEN Raise
    ELSE IF budget[1] < EUR(10000) THEN Return(0)
    ELSE IF budget[1] < EUR(50000) THEN Return(5)
    ELSE IF budget[1] < EUR(100000) THEN Return(15)
    ELSE IF budget[1] < EUR(500000) THEN Return(25)
    ELSE Return(30)

\* `not budget` holds for None and for 0; currency is not read
_score_budget(self, budget, currency) ==
    IF budget = None \/ budget[1] = 0 THEN Return(0)
    ELSE IF budget[1] < EUR(10000) THEN Return(0)
    ELSE IF budget[1] < EUR(50000) THEN Return(5)
    ELSE IF budget[1] < EUR(100000) THEN Return(15)
    ELSE IF budget[1] < EUR(500000) THEN Return(25)
    ELSE Return(30)

\* _score_country comparing the country as given, without .upper()
_score_country_exact(self, country) ==
    IF country = None THEN Raise
    ELSE IF list_in(country[1], self_PRIORITY_COUNTRIES(self)) THEN Return(20)
    ELSE Return(5)

\* _score_country giving a non-priority country 0, the low end of the
\* range its docstring names
_score_country_zero(self, country) ==
    IF country = None THEN Raise
    ELSE IF list_in(upper(country[1]),
                    [i \in 1..Len(self_PRIORITY_COUNTRIES(self)) |->
                        upper(self_PRIORITY_COUNTRIES(self)[i])])
         THEN Return(20)
    ELSE Return(0)

\* country.upper() raises on None
_score_country(self, country) ==
    IF country = None THEN Raise
    ELSE IF list_in(upper(country[1]),
                    [i \in 1..Len(self_PRIORITY_COUNTRIES(self)) |->
                        upper(self_PRIORITY_COUNTRIES(self)[i])])
         THEN Return(20)
    ELSE Return(5)

\* the sector is lower-cased, the configured terms are used as they are
_score_sector(self, sector) ==
    IF ~truthy(sector) THEN Return(0)
    ELSE IF \E i \in 1..Len(self_TARGET_SECTORS(self)) :
                str_in(self_TARGET_SECTORS(self)[i], lower(sector[1]))
         THEN Return(20)
    ELSE Return(5)

\* the text searched by _score_keywords: each non-empty field, lower-cased
\* and followed by a space
keywords_text(keywords, description) ==
    (IF truthy(keywords) THEN lower(keywords[1]) \o Str(" ") ELSE <<>>)
    \o (IF truthy(description) THEN lower(description[1]) \o Str(" ") ELSE <<>>)

\* number of offsets of text at which sub occurs
occurrences(sub, text) ==
    Cardinality({ k \in 0..(Len(text) - Len(sub)) : \A i \in 1..Len(sub) : text[k + i] = sub[i] })

\* matches computed as matches += text.count(keyword.lower())
keyword_matches_count(self, text) ==
    LET terms == self_RELEVANT_KEYWORDS(self)
        sum[i \in 0..Len(terms)] ==
            IF i = 0 THEN 0 ELSE sum[i - 1] + occurrences(lower(terms[i]), text)
    IN  sum[Len(terms)]

\* matches after the loop over self.RELEVANT_KEYWORDS: one per list entry
\* whose lower-cased form occurs in text
keyword_matches(self, text) ==
    Cardinality({ i \in 1..Len(self_RELEVANT_KEYWORDS(self)) :
                    str_in(lower(self_RELEVANT_KEYWORDS(self)[i]), text) })

\* the step mapping at the end of _score_keywords
keyword_points(matches) ==
    IF matches = 0 THEN 0
    ELSE IF matches <= 2 THEN 5
    ELSE IF matches <= 4 THEN 10
    ELSE 15

\* _score_keywords without the `if keywords:` guard: keywords.lower() raises
\* on None
_score_keywords_unguarded(self, keywords, description) ==
    LET text == keywords_text(keywords, description)
    IN  IF keywords = None THEN Raise
        ELSE IF text = <<>> THEN Return(0)
        ELSE Return(keyword_points(keyword_matches(self, text)))

_score_keywords(self, keywords, description) ==
    LET text == keywords_text(keywords, description)
    IN  IF text = <<>> THEN Return(0)
        ELSE Return(keyword_points(keyword_matches(self, text)))

\* `not tender_type` holds for None and for the empty str
_score_tender_type(self, tender_type) ==
    IF tender_type = None \/ tender_type[1].value = "" THEN Return(0)
    ELSE IF type_in(tender_type[1], LESS_RELEVANT_TYPES) THEN Return(-5)
    ELSE IF type_in(tender_type[1], << SERVICES, SUPPLIES >>) THEN Return(10)
    ELSE Return(0)

\* _score_status comparing with the enum member's name instead of its value
_score_status_upper(self, status) ==
    IF status = Some("OPEN") THEN Return(5) ELSE Return(0)

\* None == "open" is False
_score_status(self, status) ==
    IF status = Some("open") THEN Return(5) ELSE Return(0)

(***************************************************************************)
(* scoring.py: calculate_score and explain_score                           *)
(***************************************************************************)
\* the six calls of calculate_score, in the order it makes them
factor_calls(self, t) ==
    << _score_budget(self, t.budget, t.currency),
       _score_country(self, t.country),
       _score_sector(self, t.sector),
       _score_keywords(self, t.keywords, t.description),
       _score_tender_type(self, t.tender_type),
       _score_status(self, t.status) >>

\* the local `score` of calculate_score after the six additions
raw_score(self, t) ==
    LET calls == factor_calls(self, t)
    IN  calls[1].value + calls[2].value + calls[3].value
        + calls[4].value + calls[5].value + calls[6].value

min(a, b) == IF a <= b THEN a ELSE b

max(a, b) == IF a >= b THEN a ELSE b

\* calculate_score: a raising factor call propagates, otherwise the sum is
\* clamped to 0..100
calculate_score(self, t) ==
    IF \E i \in 1..6 : factor_calls(self, t)[i].raised THEN Raise
    ELSE Return(max(0, min(100, raw_score(self, t))))

\* explain_score with the "sector" entry filled by a call of _score_country
explain_score_slip(self, t) ==
    IF calculate_score(self, t).raised THEN Raise
    ELSE Return([ total |-> calculate_score(self, t).value,
                  breakdown |->
                    [ budget      |-> _score_budget(self, t.budget, t.currency).value,
                      country     |-> _score_country(self, t.country).value,
                      sector      |-> _score_country(self, t.country).value,
                      keywords    |-> _score_keywords(self, t.keywords, t.description).value,
                      tender_type |-> _score_tender_type(self, t.tender_type).value,
                      status      |-> _score_status(self, t.status).value ] ])

\* explain_score: the dict literal evaluates "total" first, then the six
\* breakdown entries by fresh calls of the factor functions
explain_score(self, t) ==
    IF calculate_score(self, t).raised THEN Raise
    ELSE Return([ total |-> calculate_score(self, t).value,
                  breakdown |->
                    [ budget      |-> _score_budget(self, t.budget, t.currency).value,
                      country     |-> _score_country(self, t.country).value,
                      sector      |-> _score_sector(self, t.sector).value,
                      keywords    |-> _score_keywords(self, t.keywords, t.description).value,
                      tender_type |-> _score_tender_type(self, t.tender_type).value,
                      status      |-> _score_status(self, t.status).value ] ])

(***************************************************************************)
(* The inputs: tender records and engine configurations                    *)
(***************************************************************************)
\* longest generated string
MaxLen == 2

\* longest generated configuration list
MaxTerms == 2

\* generated budgets lie within this many cents of a tier boundary
BudgetSpread == 2

\* all strings over alphabet of at most n characters
Strings(alphabet, n) == UNION { [1..k -> alphabet] : k \in 0..n }

\* all lists of at most n elements of terms
Lists(terms, n) == UNION { [1..k -> terms] : k \in 0..n }

\* None or a present element of S
Optional(S) == { None } \cup { Some(v) : v \in S }

\* the tenders of the general specification: every combination of a few
\* values per field, absent values included (the fields no scoring rule
\* reads, other than cpv_code, are left out)
Tenders ==
    [ description : Optional({ Str("") }),
      country     : Optional({ Str("ES"), Str("BR") }),
      sector      : Optional({ Str("software development"), Str("") }),
      cpv_code    : Optional({ Str("48000000") }),
      budget      : Optional({ EUR(9999), EUR(600000) }),
      currency    : { Some("EUR") },
      status      : Optional({ "open", "closed" }),
      tender_type : Optional({ WORKS, SERVICES, PlainStr("works") }),
      keywords    : Optional({ Str("cloud, api, saas"), Str("digital, cloud, api, saas, platform") }),
      score       : { None } ]

\* the engines of the general specification: ScoringEngine() and an engine
\* built with overrides
Engines ==
    { __init__(None, None, None),
      __init__(Some(<< Str("br"), Str("PT") >>), Some(<<>>), Some(<< Str("Cloud"), Str("api") >>)) }

NoResult == Return(0)

\* no listing has been asked for
NoListing == [ asked |-> FALSE ]

\* the class as its body leaves it, no further engine, no call in progress,
\* an empty table
InitRest ==
    /\ cls = ClassDefaults
    /\ others = <<>>
    /\ frames = <<>>
    /\ table = <<>>
    /\ listing = NoListing

(***************************************************************************)
(* The operations                                                          *)
(***************************************************************************)
\* a caller invokes engine.calculate_score(tender)
CalculateScore ==
    /\ pc = "ready"
    /\ result' = calculate_score(engine, tender)
    /\ pc' = "scored"
    /\ UNCHANGED <<engine, tender, cls, others, frames, table, listing>>

\* a caller invokes engine.explain_score(tender)
ExplainScore ==
    /\ pc = "ready"
    /\ result' = explain_score(engine, tender)
    /\ pc' = "explained"
    /\ UNCHANGED <<engine, tender, cls, others, frames, table, listing>>

\* seed_database's loop body: tender.score = scoring_engine.calculate_score(tender);
\* an exception leaves the tender as it was and propagates
SeedTender ==
    /\ pc = "ready"
    /\ result' = calculate_score(engine, tender)
    /\ IF result'.raised
       THEN pc' = "failed" /\ UNCHANGED tender
       ELSE pc' = "stored" /\ tender' = [tender EXCEPT !.score = Some(result'.value)]
    /\ UNCHANGED <<engine, cls, others, frames, table, listing>>

Next == CalculateScore \/ ExplainScore \/ SeedTender

\* the general specification: any engine, any tender
Init ==
    /\ engine \in Engines
    /\ tender \in Tenders
    /\ pc = "ready"
    /\ result = NoResult
    /\ InitRest

Spec == Init /\ [][Next]_vars

(***************************************************************************)
(* Properties of the general specification                                 *)
(***************************************************************************)
\* a call has returned or raised
Called == pc \in { "scored", "explained", "stored", "failed" }

\* the required fields the scoring rules read are present
RequiredPresent == tender.country # None /\ tender.sector # None /\ tender.status # None

\* the sum of the six values of an explain_score breakdown
BreakdownSum(b) == b.budget + b.country + b.sector + b.keywords + b.tender_type + b.status

\* C1: for a tender whose country, sector and status are present,
\* calculate_score returns (it does not raise) a value between 0 and 100;
\* so does the score seed_database stores in the tender.
ScoreInRange ==
    /\ (pc \in { "scored", "stored", "failed" } /\ RequiredPresent) =>
            /\ ~result.raised
            /\ 0 <= result.value /\ result.value <= 100
    /\ (pc = "stored" /\ RequiredPresent) =>
            /\ tender.score # None
            /\ 0 <= tender.score[1] /\ tender.score[1] <= 100

\* calculate_score has returned the greatest score, 100
ScoreInRangeWitness ==
    pc = "scored" /\ RequiredPresent /\ ~result.raised /\ result.value = 100

\* C2: explain_score returns a total equal to what calculate_score returns
\* for the same tender, a breakdown with exactly the six keys, and the sum
\* of the six values clamped to 0..100 equals the total.
ExplainMatchesScore ==
    pc = "explained" =>
        /\ result.raised = calculate_score(engine, tender).raised
        /\ ~result.raised =>
            /\ result.value.total = calculate_score(engine, tender).value
            /\ DOMAIN result.value.breakdown =
                 { "budget", "country", "sector", "keywords", "tender_type", "status" }
            /\ max(0, min(100, BreakdownSum(result.value.breakdown))) = result.value.total

\* explain_score has returned a breakdown whose factors are all non-zero
ExplainMatchesScoreWitness ==
    /\ pc = "explained" /\ ~result.raised
    /\ result.value.breakdown.tender_type = -5
    /\ result.value.breakdown.budget > 0
    /\ result.value.breakdown.sector > 0
    /\ result.value.breakdown.keywords > 0
    /\ result.value.breakdown.status > 0

\* explain_score has returned for a WORKS tender whose budget, sector,
\* keyword and status factors are zero
WorksOtherwiseZero ==
    /\ pc = "explained" /\ ~result.raised
    /\ tender.tender_type # None /\ tender.tender_type[1].value = "works"
    /\ result.value.breakdown.budget = 0
    /\ result.value.breakdown.sector = 0
    /\ result.value.breakdown.keywords = 0
    /\ result.value.breakdown.status = 0

\* C8 as stated: a WORKS tender whose other factors are all zero has a
\* negative raw sum, which the clamp turns into a total of 0.
WorksClampedFromNegative ==
    (WorksOtherwiseZero /\ result.value.breakdown.country < 20) =>
        /\ result.value.breakdown.country = 0
        /\ raw_score(engine, tender) < 0
        /\ result.value.total = 0

\* C8 amended: for a WORKS tender whose budget, sector, keyword and status
\* factors are zero the raw sum is the country factor minus 5, which is not
\* negative; the total is that sum unclamped, 0 for a non-priority country.
WorksTotalIsCountryMinusFive ==
    WorksOtherwiseZero =>
        /\ result.value.breakdown.tender_type = -5
        /\ raw_score(engine, tender) = result.value.breakdown.country - 5
        /\ raw_score(engine, tender) >= 0
        /\ result.value.total = raw_score(engine, tender)
        /\ result.value.breakdown.country = 5 => result.value.total = 0

\* such a WORKS tender of a non-priority country has been explained
WorksTotalWitness ==
    WorksOtherwiseZero /\ result.value.breakdown.country = 5 /\ result.value.total = 0

\* the tender of the end-to-end example
IsExampleTender ==
    /\ tender.budget = Some(EUR(600000))
    /\ tender.country = Some(Str("ES"))
    /\ tender.sector = Some(Str("software development"))
    /\ tender.keywords = Some(Str("cloud, api, saas"))
    /\ tender.description = Some(Str(""))
    /\ tender.tender_type = Some(SERVICES)
    /\ tender.status = Some("open")

\* C9: with the default configuration the example tender has 3 keyword
\* matches and gets budget 30, country 20, sector 20, keywords 10,
\* tender_type 10, status 5 and the total 95.
ExampleScores95 ==
    (pc = "explained" /\ engine = __init__(None, None, None) /\ IsExampleTender) =>
        /\ ~result.raised
        /\ keyword_matches(engine, keywords_text(tender.keywords, tender.description)) = 3
        /\ result.value.breakdown =
             [ budget |-> 30, country |-> 20, sector |-> 20, keywords |-> 10,
               tender_type |-> 10, status |-> 5 ]
        /\ result.value.total = 95

\* the example tender has been explained by the default engine
ExampleWitness ==
    /\ pc = "explained" /\ engine = __init__(None, None, None) /\ IsExampleTender
    /\ ~result.raised /\ result.value.total = 95

\* C10: a call raises exactly when the country is None, so never because
\* description, budget, tender_type, keywords or cpv_code is absent; an
\* absent budget or tender_type contributes 0, absent keywords and
\* description together contribute 0, and either of them absent contributes
\* what the empty string does.
AbsentOptionalIsZero ==
    /\ Called => (result.raised <=> tender.country = None)
    /\ (pc = "explained" /\ ~result.raised) =>
        /\ tender.budget = None => result.value.breakdown.budget = 0
        /\ tender.tender_type = None => result.value.breakdown.tender_type = 0
        /\ (tender.keywords = None /\ tender.description = None) =>
                result.value.breakdown.keywords = 0
        /\ tender.keywords = None =>
                result.value.breakdown.keywords =
                    _score_keywords(engine, Some(Str("")), tender.description).value
        /\ tender.description = None =>
                result.value.breakdown.keywords =
                    _score_keywords(engine, tender.keywords, Some(Str(""))).value
        /\ result.value = explain_score(engine, [tender EXCEPT !.cpv_code = None]).value

\* a call has returned for a tender with every optional field absent
AbsentOptionalWitness ==
    /\ pc = "explained" /\ ~result.raised
    /\ tender.description = None /\ tender.budget = None /\ tender.tender_type = None
    /\ tender.keywords = None /\ tender.cpv_code = None
    /\ result.value.breakdown.budget = 0 /\ result.value.breakdown.keywords = 0

(***************************************************************************)
(* Specifications that explore one factor: the same operations, started    *)
(* from tenders and engines that vary the fields the factor reads          *)
(***************************************************************************)
\* a seeded tender, the fields no scoring rule reads left out
BaseTender ==
    [ description |-> None,
      country     |-> Some(Str("ES")),
      sector      |-> Some(Str("it")),
      cpv_code    |-> Some(Str("48000000")),
      budget      |-> Some(EUR(75000)),
      currency    |-> Some("EUR"),
      status      |-> Some("open"),
      tender_type |-> Some(PlainStr("services")),
      keywords    |-> Some(Str("api")),
      score       |-> None ]

\* the lower bounds of the budget tiers, and 0
TierBounds == { 0, EUR(10000), EUR(50000), EUR(100000), EUR(500000) }

\* budgets: absent, within BudgetSpread cents of a tier bound, a whole euro
\* below each bound, and one far above the last
BudgetValues ==
    Optional({ b + d : b \in TierBounds, d \in (0 - BudgetSpread)..BudgetSpread }
             \cup { b - EUR(1) : b \in TierBounds } \cup { EUR(600000) })

Currencies == Optional({ "EUR", "USD" })

InitBudget ==
    /\ engine = __init__(None, None, None)
    /\ \E b \in BudgetValues, c \in Currencies :
            tender = [BaseTender EXCEPT !.budget = b, !.currency = c]
    /\ pc = "ready"
    /\ result = NoResult
    /\ InitRest

SpecBudget == InitBudget /\ [][Next]_vars

TenderTypeValues ==
    Optional({ WORKS, SUPPLIES, SERVICES, CONCESSION,
               PlainStr("works"), PlainStr("supplies"), PlainStr("services"),
               PlainStr("concession"), PlainStr("WORKS"), PlainStr("mixed"), PlainStr("") })

InitTenderType ==
    /\ engine \in Engines
    /\ \E ty \in TenderTypeValues, st \in Optional({ "open", "closed" }) :
            tender = [BaseTender EXCEPT !.tender_type = ty, !.status = st]
    /\ pc = "ready"
    /\ result = NoResult
    /\ InitRest

SpecTenderType == InitTenderType /\ [][Next]_vars

\* C7: the contract-type factor is 0 for a missing type, -5 for WORKS or
\* CONCESSION, 10 for SERVICES or SUPPLIES and 0 for any other value, the
\* same for a TenderType member and for its stored lower-case string.
TenderTypeFactor ==
    (pc = "explained" /\ ~result.raised) =>
        LET f == result.value.breakdown.tender_type
            ty == tender.tender_type
        IN  /\ ty = None => f = 0
            /\ ty # None =>
                /\ ty[1].value \in { "works", "concession" } => f = -5
                /\ ty[1].value \in { "services", "supplies" } => f = 10
                /\ ty[1].value \notin { "works", "concession", "services", "supplies" } => f = 0

\* the stored string "works" has been given the penalty
TenderTypeWitness ==
    /\ pc = "explained" /\ ~result.raised
    /\ tender.tender_type = Some(PlainStr("works"))
    /\ result.value.breakdown.tender_type = -5

\* country codes: short strings over two letters, one in both cases
CountryStrings == Strings({ "e", "E", "s" }, MaxLen)

\* configured codes, in several letter cases
CountryTerms == { Str(""), Str("e"), Str("E"), Str("eS"), Str("ES") }

InitCountry ==
    /\ \E codes \in Lists(CountryTerms, MaxTerms) : engine = __init__(Some(codes), None, None)
    /\ \E c \in Optional(CountryStrings) \cup { Some(Str("es")), Some(Str("Fr")) } :
            tender = [BaseTender EXCEPT !.country = c]
    /\ pc = "ready"
    /\ result = NoResult
    /\ InitRest

SpecCountry == InitCountry /\ [][Next]_vars

\* a and b are equal once letter case is ignored
SameIgnoringCase(a, b) ==
    /\ Len(a) = Len(b)
    /\ \A i \in 1..Len(a) : lower_char[a[i]] = lower_char[b[i]]

\* C6: for a non-null country the country factor is 20 if the country equals
\* some configured code ignoring letter case and 5 otherwise, the empty
\* string included; it is never 0, and countries that differ only in letter
\* case get the same factor.
CountryFactor ==
    (pc = "explained" /\ tender.country # None) =>
        LET f == result.value.breakdown.country
            codes == self_PRIORITY_COUNTRIES(engine)
        IN  /\ ~result.raised
            /\ f = IF \E i \in 1..Len(codes) : SameIgnoringCase(codes[i], tender.country[1])
                   THEN 20 ELSE 5
            /\ f # 0
            /\ \A c2 \in CountryStrings :
                    SameIgnoringCase(c2, tender.country[1]) =>
                        _score_country(engine, Some(c2)).value = f

\* a country written in lower case has matched a code configured in upper
\* case
CountryWitness ==
    /\ pc = "explained" /\ ~result.raised
    /\ tender.country = Some(Str("e"))
    /\ self_PRIORITY_COUNTRIES(engine) = << Str("E") >>
    /\ result.value.breakdown.country = 20

\* sectors and configured sector terms
SectorStrings == Strings({ "i", "I", "t" }, MaxLen)

SectorTerms == { Str("i"), Str("I"), Str("t"), Str("it"), Str("IT") }

InitSector ==
    /\ \E terms \in Lists(SectorTerms, MaxTerms) : engine = __init__(None, Some(terms), None)
    /\ \E sec \in Optional(SectorStrings) : tender = [BaseTender EXCEPT !.sector = sec]
    /\ pc = "ready"
    /\ result = NoResult
    /\ InitRest

SpecSector == InitSector /\ [][Next]_vars

\* C4: the sector factor is 0 for an empty or missing sector, 20 if the
\* lower-cased sector contains the lower-cased form of some configured
\* term, whatever the term's letter case, and 5 otherwise.
SectorFactorIgnoresTermCase ==
    (pc = "explained" /\ ~result.raised) =>
        LET f == result.value.breakdown.sector
            terms == self_TARGET_SECTORS(engine)
        IN  f = IF ~truthy(tender.sector) THEN 0
                ELSE IF \E i \in 1..Len(terms) :
                            str_in(lower(terms[i]), lower(tender.sector[1]))
                     THEN 20 ELSE 5

\* configured keyword terms: both letter cases, a repeated letter, a term
\* that ends in a space
KeywordTerms == { Str("a"), Str("A"), Str("a "), Str("aa"), Str("b") }

KeywordStrings == Strings({ "a", "A", "b" }, MaxLen)

\* generated lists (a term may be listed twice) with generated keywords, and
\* the default list and a list of one term three times with seeded texts
InitKeywords ==
    /\ \/ /\ \E terms \in Lists(KeywordTerms, MaxTerms) : engine = __init__(None, None, Some(terms))
          /\ \E kw \in Optional(KeywordStrings),
                de \in Optional({ Str(""), Str("a"), Str("Ab") }) :
                tender = [BaseTender EXCEPT !.keywords = kw, !.description = de]
       \/ /\ engine \in { __init__(None, None, None),
                          __init__(None, None, Some(<< Str("cloud"), Str("cloud"), Str("Cloud") >>)) }
          /\ \E kw \in Optional({ Str("cloud, api, saas"), Str("digital, cloud, api, saas, platform"),
                                  Str("ai, machine learning, analytics, data") }),
                de \in Optional({ Str("cloud cloud cloud") }) :
                tender = [BaseTender EXCEPT !.keywords = kw, !.description = de]
    /\ pc = "ready"
    /\ result = NoResult
    /\ InitRest

SpecKeywords == InitKeywords /\ [][Next]_vars

\* term is a substring of text
Occurs(term, text) ==
    \E k \in 1..(Len(text) + 1) :
        k + Len(term) - 1 <= Len(text) /\ SubSeq(text, k, k + Len(term) - 1) = term

\* the factor for a match count
PointsFor(n) ==
    CASE n = 0 -> 0
      [] n \in 1..2 -> 5
      [] n \in 3..4 -> 10
      [] OTHER -> 15

\* the lower-cased keywords and description joined by a space, as the code
\* joins them: keywords, then description, each non-empty field lower-cased
\* and followed by one space
SearchedText(keywords, description) ==
    LET part(f) == IF f = None \/ f[1] = <<>> THEN <<>> ELSE lower(f[1]) \o Str(" ")
    IN  part(keywords) \o part(description)

\* C5 as stated: the match count is the number of distinct configured terms
\* that occur, ignoring case, in the lower-cased keywords and description
\* joined by a space (a term listed twice is one term); the factor follows
\* the step mapping.
KeywordCountDistinctTerms ==
    (pc = "explained" /\ ~result.raised) =>
        LET terms == self_RELEVANT_KEYWORDS(engine)
            hay == SearchedText(tender.keywords, tender.description)
            n == Cardinality({ t \in { terms[i] : i \in 1..Len(terms) } : Occurs(lower(t), hay) })
        IN  /\ keyword_matches(engine, keywords_text(tender.keywords, tender.description)) = n
            /\ result.value.breakdown.keywords = PointsFor(n)

\* C5 amended: the match count is the number of entries of the configured
\* list (a term listed twice counts twice) whose lower-cased form occurs in
\* the searched text; an entry counts once however often it occurs; the
\* factor is 0, 5, 10, 15 for 0, 1-2, 3-4, 5 or more matches, and 0 when
\* keywords and description are both absent or empty.
KeywordCountPerEntry ==
    (pc = "explained" /\ ~result.raised) =>
        LET terms == self_RELEVANT_KEYWORDS(engine)
            text == SearchedText(tender.keywords, tender.description)
            n == Cardinality({ i \in 1..Len(terms) : Occurs(lower(terms[i]), text) })
        IN  /\ n <= Len(terms)
            /\ text # <<>> =>
                /\ keyword_matches(engine, keywords_text(tender.keywords, tender.description)) = n
                /\ result.value.breakdown.keywords = PointsFor(n)
            /\ text = <<>> => result.value.breakdown.keywords = 0
            /\ (tender.keywords = None /\ tender.description = None) =>
                    result.value.breakdown.keywords = 0

\* a list naming one term three times has been matched against a text in
\* which the term occurs three times: 3 matches, factor 10
KeywordCountWitness ==
    /\ pc = "explained" /\ ~result.raised
    /\ self_RELEVANT_KEYWORDS(engine) = << Str("cloud"), Str("cloud"), Str("Cloud") >>
    /\ tender.keywords = None /\ tender.description = Some(Str("cloud cloud cloud"))
    /\ keyword_matches(engine, keywords_text(tender.keywords, tender.description)) = 3
    /\ result.value.breakdown.keywords = 10

(***************************************************************************)
(* The sum before clamping                                                 *)
(***************************************************************************)
\* C13: for a tender with a non-null country the sum of the six factors
\* already lies between 0 and 100, so the clamp of calculate_score returns
\* it unchanged and explain_score's total is the exact sum of its six
\* breakdown values.
RawSumNeedsNoClamp ==
    /\ (pc = "scored" /\ tender.country # None) =>
            /\ ~result.raised
            /\ 0 <= raw_score(engine, tender) /\ raw_score(engine, tender) <= 100
            /\ result.value = raw_score(engine, tender)
    /\ (pc = "explained" /\ tender.country # None) =>
            /\ ~result.raised
            /\ result.value.breakdown.country >= 5
            /\ result.value.breakdown.tender_type >= -5
            /\ 0 <= BreakdownSum(result.value.breakdown)
            /\ BreakdownSum(result.value.breakdown) <= 100
            /\ result.value.total = BreakdownSum(result.value.breakdown)

\* explain_score has returned the least sum there is: a penalised type
\* offset by a non-priority country, every other factor 0
RawSumWitness ==
    /\ pc = "explained" /\ ~result.raised
    /\ result.value.breakdown.tender_type = -5
    /\ result.value.breakdown.country = 5
    /\ BreakdownSum(result.value.breakdown) = 0
    /\ result.value.total = 0

(***************************************************************************)
(* Construction of further engines                                         *)
(***************************************************************************)
\* most engines constructed after the shared one
MaxEngines == 2

\* the arguments a constructor call may be given, per parameter: omitted or
\* None, an empty list, a list
CountryOverrides == { None, Some(<<>>), Some(<< Str("br") >>) }

SectorOverrides == { None, Some(<<>>), Some(<< Str("construction"), Str("roads") >>) }

KeywordOverrides == { None, Some(<< Str("migration") >>) }

\* a caller evaluates ScoringEngine(a, b, c)
Construct ==
    /\ Len(others) < MaxEngines
    /\ \E a \in CountryOverrides, b \in SectorOverrides, c \in KeywordOverrides :
        LET r == construct(cls, a, b, c)
        IN  /\ cls' = r.cls
            /\ others' = Append(others, [ args |-> <<a, b, c>>, raised |-> r.raised, self |-> r.self ])
    /\ UNCHANGED <<engine, tender, pc, result, frames, table, listing>>

NextConstruct == Construct \/ CalculateScore \/ ExplainScore \/ SeedTender

InitConstruct ==
    /\ engine \in Engines
    /\ tender = BaseTender
    /\ pc = "ready"
    /\ result = NoResult
    /\ InitRest

SpecConstruct == InitConstruct /\ [][NextConstruct]_vars

\* the list an engine uses, given the argument its constructor got: the
\* argument when it is a non-empty list, else the built-in default
ListInUse(arg, default) == IF arg # None /\ Len(arg[1]) > 0 THEN arg[1] ELSE default

\* C11: every constructor call succeeds; each engine uses, per list, the
\* override it was given when that is a non-empty list and the built-in
\* default otherwise; the class attributes stay the built-in defaults and
\* the shared engine keeps its attributes and scores as it did alone.
ConstructionKeepsDefaults ==
    /\ cls = ClassDefaults
    /\ \A i \in 1..Len(others) :
        /\ ~others[i].raised
        /\ self_PRIORITY_COUNTRIES(others[i].self) = ListInUse(others[i].args[1], PRIORITY_COUNTRIES)
        /\ self_TARGET_SECTORS(others[i].self) = ListInUse(others[i].args[2], TARGET_SECTORS)
        /\ self_RELEVANT_KEYWORDS(others[i].self) = ListInUse(others[i].args[3], RELEVANT_KEYWORDS)
    /\ engine \in Engines
    /\ engine.PRIORITY_COUNTRIES = None => self_PRIORITY_COUNTRIES(engine) = PRIORITY_COUNTRIES
    /\ engine.TARGET_SECTORS = None => self_TARGET_SECTORS(engine) = TARGET_SECTORS
    /\ engine.RELEVANT_KEYWORDS = None => self_RELEVANT_KEYWORDS(engine) = RELEVANT_KEYWORDS
    /\ (pc = "scored" /\ engine = __init__(None, None, None) /\ tender = BaseTender) =>
            result = Return(75)

\* an engine was built with overrides, then one with empty lists, and the
\* shared default engine has scored the seeded tender since
ConstructionWitness ==
    /\ Len(others) = 2
    /\ others[1].args = << Some(<< Str("br") >>), Some(<< Str("construction"), Str("roads") >>),
                           Some(<< Str("migration") >>) >>
    /\ self_PRIORITY_COUNTRIES(others[1].self) = << Str("br") >>
    /\ others[2].args = << Some(<<>>), Some(<<>>), None >>
    /\ self_TARGET_SECTORS(others[2].self) = TARGET_SECTORS
    /\ pc = "scored" /\ engine = __init__(None, None, None) /\ tender = BaseTender
    /\ result = Return(75)

(***************************************************************************)
(* Concurrent callers of one shared engine: each call runs statement by    *)
(* statement, and the statements of different calls interleave             *)
(***************************************************************************)
\* number of concurrent callers
MaxCallers == 2

Callers == 1..MaxCallers

\* the frame of a caller that is not in a call
IdleFrame ==
    [ op |-> "idle", at |-> 0, score |-> 0, total |-> 0, breakdown |-> <<>>,
      done |-> FALSE, result |-> NoResult ]

\* the i-th factor call of calculate_score and of explain_score's breakdown
factor_call(i, self, t) ==
    CASE i = 1 -> _score_budget(self, t.budget, t.currency)
      [] i = 2 -> _score_country(self, t.country)
      [] i = 3 -> _score_sector(self, t.sector)
      [] i = 4 -> _score_keywords(self, t.keywords, t.description)
      [] i = 5 -> _score_tender_type(self, t.tender_type)
      [] OTHER -> _score_status(self, t.status)

\* the dict explain_score returns, from the values a frame has collected
explained(total, b) ==
    [ total |-> total,
      breakdown |-> [ budget |-> b[1], country |-> b[2], sector |-> b[3],
                      keywords |-> b[4], tender_type |-> b[5], status |-> b[6] ] ]

\* statement with the running sum kept in tender.score instead of the local
\* variable score
statement_on_tender(self, t, f) ==
    LET raising == [f EXCEPT !.done = TRUE, !.result = Raise]
        sum == IF t.score = None THEN 0 ELSE t.score[1]
    IN  IF f.at = 0
        THEN [ self |-> self, tender |-> [t EXCEPT !.score = Some(0)],
               frame |-> [f EXCEPT !.at = 1] ]
        ELSE IF f.at \in 1..6
        THEN IF factor_call(f.at, self, t).raised
             THEN [ self |-> self, tender |-> t, frame |-> raising ]
             ELSE [ self |-> self,
                    tender |-> [t EXCEPT !.score = Some(sum + factor_call(f.at, self, t).value)],
                    frame |-> [f EXCEPT !.at = @ + 1] ]
        ELSE IF f.at = 7
        THEN [ self |-> self, tender |-> t,
               frame |-> IF f.op = "calculate_score"
                         THEN [f EXCEPT !.done = TRUE, !.result = Return(max(0, min(100, sum)))]
                         ELSE [f EXCEPT !.at = 8, !.total = max(0, min(100, sum))] ]
        ELSE IF f.at \in 8..13
        THEN [ self |-> self, tender |-> t,
               frame |-> IF factor_call(f.at - 7, self, t).raised THEN raising
                         ELSE [f EXCEPT !.at = @ + 1,
                                        !.breakdown = Append(@, factor_call(f.at - 7, self, t).value)] ]
        ELSE [ self |-> self, tender |-> t,
               frame |-> [f EXCEPT !.done = TRUE, !.result = Return(explained(f.total, f.breakdown))] ]

\* the next statement of the call in frame f, on the engine self and the
\* tender t; the engine and the tender are only read.
\*   at 0        score = 0.0
\*   at 1..6     score += the factor call (an exception ends the call)
\*   at 7        return max(0.0, min(100.0, score)): the result of
\*               calculate_score, the "total" entry of explain_score
\*   at 8..13    the six entries of explain_score's breakdown
\*   at 14       explain_score returns the dict
statement(self, t, f) ==
    LET raising == [f EXCEPT !.done = TRUE, !.result = Raise]
    IN  IF f.at = 0
        THEN [ self |-> self, tender |-> t, frame |-> [f EXCEPT !.at = 1, !.score = 0] ]
        ELSE IF f.at \in 1..6
        THEN [ self |-> self, tender |-> t,
               frame |-> IF factor_call(f.at, self, t).raised THEN raising
                         ELSE [f EXCEPT !.at = @ + 1,
                                        !.score = @ + factor_call(f.at, self, t).value] ]
        ELSE IF f.at = 7
        THEN [ self |-> self, tender |-> t,
               frame |-> IF f.op = "calculate_score"
                         THEN [f EXCEPT !.done = TRUE, !.result = Return(max(0, min(100, f.score)))]
                         ELSE [f EXCEPT !.at = 8, !.total = max(0, min(100, f.score))] ]
        ELSE IF f.at \in 8..13
        THEN [ self |-> self, tender |-> t,
               frame |-> IF factor_call(f.at - 7, self, t).raised THEN raising
                         ELSE [f EXCEPT !.at = @ + 1,
                                        !.breakdown = Append(@, factor_call(f.at - 7, self, t).value)] ]
        ELSE [ self |-> self, tender |-> t,
               frame |-> [f EXCEPT !.done = TRUE, !.result = Return(explained(f.total, f.breakdown))] ]

\* caller c enters calculate_score or explain_score on the shared engine
BeginCall ==
    \E c \in Callers, op \in { "calculate_score", "explain_score" } :
        /\ frames[c].op = "idle"
        /\ frames' = [frames EXCEPT ![c] = [IdleFrame EXCEPT !.op = op]]
        /\ UNCHANGED <<engine, tender, pc, result, cls, others, table, listing>>

\* the call of caller c executes its next statement
StepCall ==
    \E c \in Callers :
        /\ frames[c].op # "idle" /\ ~frames[c].done
        /\ LET r == statement(engine, tender, frames[c])
           IN  /\ engine' = r.self
               /\ tender' = r.tender
               /\ frames' = [frames EXCEPT ![c] = r.frame]
        /\ UNCHANGED <<pc, result, cls, others, table, listing>>

\* caller c takes the result and is free to call again
EndCall ==
    \E c \in Callers :
        /\ frames[c].done
        /\ frames' = [frames EXCEPT ![c] = IdleFrame]
        /\ UNCHANGED <<engine, tender, pc, result, cls, others, table, listing>>

NextConcurrent == BeginCall \/ StepCall \/ EndCall

InitConcurrent ==
    /\ engine \in Engines
    /\ tender \in { BaseTender,
                    [BaseTender EXCEPT !.tender_type = Some(WORKS), !.country = Some(Str("BR")),
                                       !.status = Some("closed")],
                    [BaseTender EXCEPT !.country = None] }
    /\ pc = "ready"
    /\ result = NoResult
    /\ cls = ClassDefaults
    /\ others = <<>>
    /\ frames = [c \in Callers |-> IdleFrame]
    /\ table = <<>>
    /\ listing = NoListing

SpecConcurrent == InitConcurrent /\ [][NextConcurrent]_vars

\* r1 and r2 are the same outcome of a call
SameOutcome(r1, r2) ==
    /\ r1.raised = r2.raised
    /\ ~r1.raised => r1.value = r2.value

\* what the call of frame f returns when it runs alone
Alone(f) ==
    IF f.op = "calculate_score" THEN calculate_score(engine, tender)
    ELSE explain_score(engine, tender)

\* every finished call has the outcome it has when run alone, and finished
\* calls of the same operation have the same outcome
FinishedCallsAgree ==
    /\ \A c \in Callers : frames[c].done => SameOutcome(frames[c].result, Alone(frames[c]))
    /\ \A c, d \in Callers :
            (frames[c].done /\ frames[d].done /\ frames[c].op = frames[d].op) =>
                SameOutcome(frames[c].result, frames[d].result)

\* C12: under any interleaving of the statements of concurrent
\* calculate_score and explain_score calls on one shared engine, no step
\* changes the engine, the class attributes or the tender, and every call
\* returns what it returns when run alone.
ConcurrentCallsAgree ==
    /\ []FinishedCallsAgree
    /\ [][engine' = engine /\ cls' = cls /\ tender' = tender]_vars

\* one caller has finished an explain_score while the other is in the middle
\* of a calculate_score that began before it
ConcurrentWitness ==
    /\ frames[1].op = "explain_score" /\ frames[1].done /\ ~frames[1].result.raised
    /\ frames[2].op = "calculate_score" /\ ~frames[2].done /\ frames[2].at = 3
    /\ frames[1].result.value.total = 75

(***************************************************************************)
(* main.py: GET /tenders over the table seed.py fills                      *)
(***************************************************************************)
\* number of rows seed_database inserts
MaxRows == 3

\* the tender_data dicts generate_mock_tenders can produce, with the day of
\* published_date: two that differ in budget only within one tier, and one
\* of another country, type, status and tier
SeedKinds ==
    << [ data |-> BaseTender, published_date |-> 1 ],
       [ data |-> [BaseTender EXCEPT !.budget = Some(EUR(80000))], published_date |-> 3 ],
       [ data |-> [BaseTender EXCEPT !.country = Some(Str("PL")),
                                     !.sector = Some(Str("technology")),
                                     !.budget = Some(EUR(600000)),
                                     !.status = Some("closed"),
                                     !.tender_type = Some(PlainStr("works"))],
         published_date |-> 2 ] >>

\* the row seed_database stores for a tender_data dict: the score is
\* calculate_score of ScoringEngine(), the id is the next rowid
seeded_row(id, kind) ==
    [kind.data EXCEPT !.score = Some(calculate_score(__init__(None, None, None), kind.data).value)]
        @@ [ id |-> id, published_date |-> Some(kind.published_date) ]

\* seed_database, first commit: the existing rows are deleted. The commits
\* of the seed are taken between requests: a response already computed does
\* not depend on a later commit.
SeedDelete ==
    /\ pc = "ready"
    /\ ~listing.asked
    /\ table' = <<>>
    /\ pc' = "seeding"
    /\ UNCHANGED <<engine, tender, result, cls, others, frames, listing>>

\* seed_database, second commit: the scored rows are inserted, or none of
\* them when a calculate_score raised (rollback)
SeedInsert ==
    /\ pc = "seeding"
    /\ ~listing.asked
    /\ \E kinds \in [1..MaxRows -> 1..Len(SeedKinds)] :
            table' = IF \E i \in 1..MaxRows :
                            calculate_score(__init__(None, None, None), SeedKinds[kinds[i]].data).raised
                     THEN <<>>
                     ELSE [i \in 1..MaxRows |-> seeded_row(i, SeedKinds[kinds[i]])]
    /\ pc' = "ready"
    /\ UNCHANGED <<engine, tender, result, cls, others, frames, listing>>

\* TenderStatus.OPEN
OPEN == [ enum |-> TRUE, value |-> "open" ]

\* the filters applied to one row (lines 96-107)
row_matches(row, q) ==
    /\ truthy(q.country) => row.country = Some(upper(q.country[1]))
    /\ truthy(q.sector) =>
            row.sector # None /\ str_in(lower(q.sector[1]), lower(row.sector[1]))
    /\ q.status # None => row.status = Some(q.status[1].value)
    /\ q.tender_type # None =>
            row.tender_type # None /\ row.tender_type[1].value = q.tender_type[1].value
    /\ q.min_score # None => row.score # None /\ row.score[1] >= q.min_score[1]
    /\ q.max_score # None => row.score # None /\ row.score[1] <= q.max_score[1]

\* the order_func chosen from sort_by and sort_order (lines 113-120)
order_func(sort_by, sort_order) ==
    IF sort_by = "score" THEN [ column |-> "score", desc |-> sort_order = "desc" ]
    ELSE IF sort_by = "budget" THEN [ column |-> "budget", desc |-> sort_order = "desc" ]
    ELSE IF sort_by = "published_date"
    THEN [ column |-> "published_date", desc |-> sort_order = "desc" ]
    ELSE [ column |-> "score", desc |-> TRUE ]

\* the value a row is ordered by; NULL orders before every value
sort_value(row, column) == IF row[column] = None THEN -1 ELSE row[column][1]

\* ORDER BY: every arrangement of the rows that is ordered on the column;
\* the order of rows with equal values is not determined
order_by(rows, order) ==
    LET n == Len(rows)
        arrangements == { p \in [1..n -> 1..n] : \A i, j \in 1..n : i # j => p[i] # p[j] }
        ordered(p) ==
            \A i \in 1..n : \A j \in (i + 1)..n :
                IF order.desc
                THEN sort_value(rows[p[i]], order.column) >= sort_value(rows[p[j]], order.column)
                ELSE sort_value(rows[p[i]], order.column) <= sort_value(rows[p[j]], order.column)
    IN  { [i \in 1..n |-> rows[p[i]]] : p \in { a \in arrangements : ordered(a) } }

\* OFFSET offset LIMIT limit
offset_limit(rows, offset, limit) ==
    SubSeq(rows, offset + 1, min(Len(rows), offset + limit))

\* get_tenders with the offset taken as page * page_size
get_tenders_next_page(rows, q) ==
    LET query == SelectSeq(rows, LAMBDA row : row_matches(row, q))
        total == Len(query)
        offset == q.page * q.page_size
    IN  { [ raised |-> FALSE, items |-> offset_limit(o, offset, q.page_size),
            total |-> total, page |-> q.page, page_size |-> q.page_size ] :
          o \in order_by(query, order_func(q.sort_by, q.sort_order)) }

\* get_tenders: the responses the handler can give for the query parameters
\* q on the rows of the table
get_tenders(rows, q) ==
    LET query == SelectSeq(rows, LAMBDA row : row_matches(row, q))
        total == Len(query)
        offset == (q.page - 1) * q.page_size
    IN  { [ raised |-> FALSE, items |-> offset_limit(o, offset, q.page_size),
            total |-> total, page |-> q.page, page_size |-> q.page_size ] :
          o \in order_by(query, order_func(q.sort_by, q.sort_order)) }

\* the filter parameters of the requests
NoFilters ==
    [ country |-> None, sector |-> None, status |-> None, tender_type |-> None,
      min_score |-> None, max_score |-> None ]

Filters ==
    { NoFilters,
      [NoFilters EXCEPT !.country = Some(Str("es"))],
      [NoFilters EXCEPT !.country = Some(Str(""))],
      [NoFilters EXCEPT !.sector = Some(Str("T"))],
      [NoFilters EXCEPT !.status = Some(OPEN)],
      [NoFilters EXCEPT !.tender_type = Some(WORKS)],
      [NoFilters EXCEPT !.min_score = Some(75)],
      [NoFilters EXCEPT !.min_score = Some(0), !.max_score = Some(70)] }

\* sort_by is any string; sort_order is asc or desc (regex); page >= 1;
\* page_size >= 1
SortBys == { "score", "budget", "published_date", "title" }
SortOrders == { "asc", "desc" }
Pages == 1..MaxRows
PageSizes == { 1, MaxRows - 1 }

\* GET /tenders: the event loop runs the handler for one request at a time
GetTenders ==
    /\ ~listing.asked
    /\ \E f \in Filters, sort_by \in SortBys, sort_order \in SortOrders,
          page \in Pages, page_size \in PageSizes :
            LET q == f @@ [ sort_by |-> sort_by, sort_order |-> sort_order,
                            page |-> page, page_size |-> page_size ]
            IN  \E response \in get_tenders(table, q) :
                    listing' = [ asked |-> TRUE, query |-> q, response |-> response ]
    /\ UNCHANGED <<engine, tender, pc, result, cls, others, frames, table>>

\* the response is sent to the client
SendResponse ==
    /\ listing.asked
    /\ listing' = NoListing
    /\ UNCHANGED <<engine, tender, pc, result, cls, others, frames, table>>

NextListing == SeedDelete \/ SeedInsert \/ GetTenders \/ SendResponse

InitListing ==
    /\ engine = __init__(None, None, None)
    /\ tender = BaseTender
    /\ pc = "ready"
    /\ result = NoResult
    /\ InitRest

SpecListing == InitListing /\ [][NextListing]_vars

\* the rows of the table that pass the filters of the last request
MatchingRows ==
    { table[i] : i \in { k \in 1..Len(table) : row_matches(table[k], listing.query) } }

\* the column and direction the claim gives for the last request
RecognisedSortBy == listing.query.sort_by \in { "score", "budget", "published_date" }
ClaimedColumn == IF RecognisedSortBy THEN listing.query.sort_by ELSE "score"
ClaimedDescending == IF RecognisedSortBy THEN listing.query.sort_order = "desc" ELSE TRUE

\* row a comes strictly before row b in the claimed order
StrictlyBefore(a, b) ==
    IF ClaimedDescending
    THEN sort_value(a, ClaimedColumn) > sort_value(b, ClaimedColumn)
    ELSE sort_value(a, ClaimedColumn) < sort_value(b, ClaimedColumn)

\* C14: a listing is never an error; with an unrecognised sort_by the items
\* are ordered by score descending whatever sort_order is, with a recognised
\* one by that column in the direction of sort_order; total is the number of
\* rows matching the filters; and the items are the entries of the ordered
\* matches at the positions (page-1)*page_size + 1 .. + page_size, as far as
\* they exist.
ListingIsOrderedSlice ==
    listing.asked =>
        LET q == listing.query
            r == listing.response
            offset == (q.page - 1) * q.page_size
            n == Len(r.items)
        IN  /\ ~r.raised
            /\ r.total = Cardinality(MatchingRows)
            /\ n = min(q.page_size, max(0, r.total - offset))
            /\ \A k \in 1..n : r.items[k] \in MatchingRows
            /\ \A k, l \in 1..n : k # l => r.items[k].id # r.items[l].id
            /\ \A k \in 1..n :
                    /\ Cardinality({ m \in MatchingRows : StrictlyBefore(m, r.items[k]) })
                            <= offset + k - 1
                    /\ Cardinality({ m \in MatchingRows : ~StrictlyBefore(r.items[k], m) })
                            >= offset + k
            /\ \A k \in 1..n : \A l \in (k + 1)..n : ~StrictlyBefore(r.items[l], r.items[k])

\* a request with sort_by=title and sort_order=asc for page 2 of size 2 on
\* three rows of two different scores: the total is 3 and the one item is a
\* row of the lowest score
ListingWitness ==
    /\ listing.asked
    /\ listing.query.sort_by = "title" /\ listing.query.sort_order = "asc"
    /\ listing.query.page = 2 /\ listing.query.page_size = 2
    /\ listing.query.country = None /\ listing.query.min_score = None
    /\ Len(table) = 3
    /\ listing.response.total = 3
    /\ Len(listing.response.items) = 1
    /\ \E i \in 1..3 : table[i].score[1] > listing.response.items[1].score[1]
    /\ \A i \in 1..3 : table[i].score[1] >= listing.response.items[1].score[1]

====
